---- MODULE Spec2Model ----
(***************************************************************************)
(* Fantasy league rules of the VCT fantasy application: rosters, star      *)
(* flags, trades and snake drafts, as implemented by src/database.py and    *)
(* the request handlers of src/app.py.  One league is modelled; every       *)
(* action is one request handler, i.e. one committed SQLite transaction     *)
(* sequence run to completion.                                              *)
(***************************************************************************)
EXTENDS Integers, Sequences, FiniteSets, TLC

VARIABLES
    teams,          \* ids of the fantasy_teams rows of the league
    total_players,  \* ruleset["total_players"] of the league
    players,        \* player_ids that have a row in the players table
    roster,         \* rows of fantasy_roster
    trades,         \* rows of trades, trade id = index
    drafts,         \* rows of draft_sessions, session id = index
    last,           \* the handler that ran last, the branch it took and its
                    \* result (resolve_trade's return value, else the flash category)
    site,           \* the match pages of the event on vlr.gg, in URL order
    fetched,        \* indexes of the pages the last scrape downloaded
    match_player_stats, \* rows of match_player_stats
    board,          \* rows of players: the stat and point columns
    followed_teams, \* followed_teams.team_name by fantasy team, "" = no row
    match_results,  \* rows of match_results
    point_adjustments,  \* rows of point_adjustments
    arg,            \* argument of the function under test
    out,            \* what the function returned for it
    requests,       \* the draft_pick requests in flight: position and locals
    player_adjustments, \* rows of player_adjustments ever inserted, id = index
    matches         \* rows of matches

\* the tables written by the scraper, the scoring and the standings inputs
scoring == <<site, fetched, match_player_stats, board, followed_teams,
             match_results, point_adjustments, arg, out, requests,
             player_adjustments, matches>>

\* the request positions, the ledger and the matches table
rest == <<requests, player_adjustments, matches>>

\* the league tables
league == <<teams, total_players, roster, trades, drafts>>

vars == <<teams, total_players, players, roster, trades, drafts, last, scoring>>

\* ---------------------------------------------------------------- bounds
MaxTrades == 1      \* trades rows explored
MaxDrafts == 2      \* draft_sessions rows explored
MaxCap    == 2      \* largest total_players explored
MaxRows   == 3      \* longest list of match rows aggregated
MaxResults == 1     \* match_results rows explored
MaxAdjustments == 1 \* point_adjustments rows explored
MaxLedger == 2      \* player_adjustments rows explored
MaxManual == 2      \* largest |manual_pts| explored, in adjustments of 5 points

\* ---------------------------------------------------------------- inputs
TeamIds   == {1, 2, 3}
PlayerIds == {"p1", "p2", "px"}      \* "px" has no players row
Phases    == {"swiss", "playoffs"}
RoleSlots == {"flex", "duelist"}
NoPhase   == "none"                  \* request without a phase field

\* ---------------------------------------------------------------- roster
\* A fantasy_roster row.  The id, tournament_id, is_duplicate and added_at
\* columns are written but never read by the operations modelled here.
RosterRow(t, p, slot, ph, star) ==
    [team |-> t, player |-> p, role_slot |-> slot, phase |-> ph, is_star |-> star]

\* UNIQUE(fantasy_team_id, player_id, phase)
SameKey(r, t, p, ph) == r.team = t /\ r.player = p /\ r.phase = ph

\* get_roster with a phase: fantasy_roster JOIN players
get_roster(ros, pl, t, ph) ==
    {r \in ros : r.team = t /\ r.phase = ph /\ r.player \in pl}

\* INSERT without the IntegrityError of the UNIQUE constraint
add_player_to_roster_nocheck(ros, t, p, slot, ph) ==
    [ok |-> TRUE, roster |-> ros \cup {RosterRow(t, p, slot, ph, FALSE)}]

\* add_player_to_roster: INSERT, IntegrityError -> False
add_player_to_roster(ros, t, p, slot, ph) ==
    IF \E r \in ros : SameKey(r, t, p, ph)
    THEN [ok |-> FALSE, roster |-> ros]
    ELSE [ok |-> TRUE, roster |-> ros \cup {RosterRow(t, p, slot, ph, FALSE)}]

\* remove_player_from_roster: one phase, or every phase when none is given
remove_player_from_roster(ros, t, p, ph) ==
    IF ph # NoPhase
    THEN {r \in ros : ~SameKey(r, t, p, ph)}
    ELSE {r \in ros : ~(r.team = t /\ r.player = p)}

\* UPDATE fantasy_roster SET is_star=0 WHERE fantasy_team_id=? AND phase=?
clear_star_player(ros, t, ph) ==
    {IF r.team = t /\ r.phase = ph THEN [r EXCEPT !.is_star = FALSE] ELSE r : r \in ros}

\* set_star_player without the clearing UPDATE
set_star_player_noclear(ros, t, p, ph) ==
    {IF SameKey(r, t, p, ph) THEN [r EXCEPT !.is_star = TRUE] ELSE r : r \in ros}

\* set_star_player: clear the team/phase, then flag the named player's row
set_star_player(ros, t, p, ph) ==
    {IF SameKey(r, t, p, ph) THEN [r EXCEPT !.is_star = TRUE] ELSE r :
        r \in clear_star_player(ros, t, ph)}

\* ---------------------------------------------------------------- trades
TradeRow(ft, tt, fp, tp) ==
    [from_team |-> ft, to_team |-> tt, from_player |-> fp, to_player |-> tp,
     status |-> "pending"]

\* SELECT role_slot, phase FROM fantasy_roster WHERE fantasy_team_id=? AND
\* player_id=?  -- no phase in the WHERE clause, fetchone() takes any match
TradeSlots(ros, t, p) == {r \in ros : r.team = t /\ r.player = p}

\* The two DELETEs of the swap: every phase of both players goes
SwapDeleted(ros, tr) ==
    {r \in ros : ~(r.team = tr.from_team /\ r.player = tr.from_player)
              /\ ~(r.team = tr.to_team /\ r.player = tr.to_player)}

\* The two INSERTs of the swap, in order; a UNIQUE violation raises
SwapOutcome(ros, tr, fs, ts) ==
    LET kept == SwapDeleted(ros, tr)
        ins1 == RosterRow(tr.from_team, tr.to_player, fs.role_slot, fs.phase, FALSE)
        ins2 == RosterRow(tr.to_team, tr.from_player, ts.role_slot, ts.phase, FALSE)
        clash1 == \E r \in kept : SameKey(r, ins1.team, ins1.player, ins1.phase)
        clash2 == \E r \in kept \cup {ins1} : SameKey(r, ins2.team, ins2.player, ins2.phase)
    IN  IF clash1 \/ clash2
        THEN [raised |-> TRUE, roster |-> ros]
        ELSE [raised |-> FALSE, roster |-> kept \cup {ins1, ins2}]

SetStatus(trs, id, st) == [trs EXCEPT ![id].status = st]

\* resolve_trade with the DELETEs hoisted out of the `if from_slot and to_slot`
resolve_trade_partial(ros, trs, id, action) ==
    IF id \notin DOMAIN trs \/ trs[id].status # "pending"
    THEN {[ret |-> "False", path |-> "not_pending", roster |-> ros, trades |-> trs]}
    ELSE
      LET tr == trs[id]
          from_rows == TradeSlots(ros, tr.from_team, tr.from_player)
          to_rows   == TradeSlots(ros, tr.to_team, tr.to_player)
      IN  IF action # "accepted"
          THEN {[ret |-> "True", path |-> "rejected", roster |-> ros,
                 trades |-> SetStatus(trs, id, action)]}
          ELSE IF from_rows = {} \/ to_rows = {}
          THEN {[ret |-> "True", path |-> "missing", roster |-> SwapDeleted(ros, tr),
                 trades |-> SetStatus(trs, id, action)]}
          ELSE {LET o == SwapOutcome(ros, tr, fs, ts)
                IN  IF o.raised
                    THEN [ret |-> "raised", path |-> "conflict", roster |-> ros,
                          trades |-> trs]
                    ELSE [ret |-> "True", path |-> "swapped", roster |-> o.roster,
                          trades |-> SetStatus(trs, id, action)]
                : fs \in from_rows, ts \in to_rows}

\* resolve_trade: the set of results the call can have.  ret is the return
\* value ("raised": sqlite3.IntegrityError propagates, the connection is
\* dropped uncommitted and nothing is written).
resolve_trade(ros, trs, id, action) ==
    IF id \notin DOMAIN trs \/ trs[id].status # "pending"
    THEN {[ret |-> "False", path |-> "not_pending", roster |-> ros, trades |-> trs]}
    ELSE
      LET tr == trs[id]
          from_rows == TradeSlots(ros, tr.from_team, tr.from_player)
          to_rows   == TradeSlots(ros, tr.to_team, tr.to_player)
      IN  IF action # "accepted"
          THEN {[ret |-> "True", path |-> "rejected", roster |-> ros,
                 trades |-> SetStatus(trs, id, action)]}
          ELSE IF from_rows = {} \/ to_rows = {}
          THEN {[ret |-> "True", path |-> "missing", roster |-> ros,
                 trades |-> SetStatus(trs, id, action)]}
          ELSE {LET o == SwapOutcome(ros, tr, fs, ts)
                IN  IF o.raised
                    THEN [ret |-> "raised", path |-> "conflict", roster |-> ros,
                          trades |-> trs]
                    ELSE [ret |-> "True", path |-> "swapped", roster |-> o.roster,
                          trades |-> SetStatus(trs, id, action)]
                : fs \in from_rows, ts \in to_rows}

\* ---------------------------------------------------------------- drafts
\* get_teams_in_league: ... ORDER BY id, then [t["id"] for t in teams]
RECURSIVE team_ids(_)
team_ids(S) ==
    IF S = {} THEN <<>>
    ELSE LET m == CHOOSE x \in S : \A y \in S : x <= y
         IN  <<m>> \o team_ids(S \ {m})

forward(n)  == [i \in 1..n |-> i - 1]        \* list(range(n))
backward(n) == [i \in 1..n |-> n - i]        \* list(reversed(range(n)))

\* the while loop with every round appended forward
RECURSIVE snake_loop_forward(_, _, _, _)
snake_loop_forward(snake, round_num, n, target) ==
    IF Len(snake) < target
    THEN snake_loop_forward(snake \o forward(n), round_num + 1, n, target)
    ELSE snake

\* while len(snake) < total_players * n: snake += forward/backward
RECURSIVE snake_loop(_, _, _, _)
snake_loop(snake, round_num, n, target) ==
    IF Len(snake) < target
    THEN snake_loop(snake \o (IF round_num % 2 = 0 THEN forward(n) ELSE backward(n)),
                    round_num + 1, n, target)
    ELSE snake

\* snake[:total_players * n] mapped through team_ids (0-based indices)
snake_team_ids(S, k) ==
    LET n     == Cardinality(S)
        ids   == team_ids(S)
        snake == SubSeq(snake_loop(<<>>, 0, n, k * n), 1, k * n)
    IN  [i \in 1..Len(snake) |-> ids[snake[i] + 1]]

DraftRow(ph, S, k) ==
    [phase |-> ph, status |-> "active", current_pick |-> 1,
     total_picks |-> k * Cardinality(S), snake_order |-> snake_team_ids(S, k)]

\* create_draft_session: None without teams, else one more 'active' row
create_draft_session(drs, S, k, ph) ==
    IF S = {} THEN drs ELSE Append(drs, DraftRow(ph, S, k))

\* get_active_draft: ... WHERE status='active' ORDER BY id DESC LIMIT 1; 0 = None
get_active_draft(drs) ==
    LET act == {i \in DOMAIN drs : drs[i].status = "active"}
    IN  IF act = {} THEN 0 ELSE CHOOSE i \in act : \A j \in act : j <= i

\* get_current_drafter: order[current_pick - 1], None (0) past the end
get_current_drafter(d) ==
    IF d.current_pick - 1 >= Len(d.snake_order) THEN 0
    ELSE d.snake_order[d.current_pick]

\* advance_draft completing one pick early
advance_draft_early(drs, id) ==
    LET new_pick == drs[id].current_pick + 1
    IN  IF new_pick >= drs[id].total_picks
        THEN [drs EXCEPT ![id].status = "complete", ![id].current_pick = new_pick]
        ELSE [drs EXCEPT ![id].current_pick = new_pick]

\* advance_draft
advance_draft(drs, id) ==
    LET new_pick == drs[id].current_pick + 1
    IN  IF new_pick > drs[id].total_picks
        THEN [drs EXCEPT ![id].status = "complete", ![id].current_pick = new_pick]
        ELSE [drs EXCEPT ![id].current_pick = new_pick]

Done(op, path, ret) == [op |-> op, path |-> path, ret |-> ret]

\* the requests the server handles at once, and a request not in draft_pick
Requests == {"a", "b"}

Idle == [pc |-> "idle", player |-> "", sid |-> 0, phase |-> "", team |-> 0, pick |-> 0]

\* ================================================================ numbers
\* The program computes with Python floats.  The model keeps every quantity
\* as an exact number: acs, kast and adr in hundredths, rating in
\* thousandths, points in ten-thousandths.  A value between two integers is
\* a mixed number i + n/d with 0 <= n < d; round() is Python's
\* round-half-to-even applied to the exact value.  (Where the exact value
\* lies halfway between two results, the float the program rounds lies a
\* hair to one side of it, so the program's last digit can differ by one
\* there; nothing below depends on the direction of a tie.)
RECURSIVE GCD(_, _)
GCD(a, b) == IF b = 0 THEN a ELSE GCD(b, a % b)

\* N / D for D > 0
Frac(N, D) ==
    LET r == N % D
        g == GCD(D, r)
    IN  [i |-> N \div D, n |-> r \div g, d |-> D \div g]

Whole(i) == [i |-> i, n |-> 0, d |-> 1]

Plus(x, y) ==
    LET f == Frac(x.n * y.d + y.n * x.d, x.d * y.d)
    IN  [i |-> x.i + y.i + f.i, n |-> f.n, d |-> f.d]

\* x * N / D for integers N >= 0 and D > 0
Times(x, N, D) ==
    LET g == GCD(N, D)
    IN  Plus(Frac(x.i * (N \div g), D \div g),
             Frac(x.n * (N \div g), x.d * (D \div g)))

\* x / k for an integer k > 0
Over(x, k) ==
    LET f == Frac((x.i % k) * x.d + x.n, k * x.d)
    IN  [i |-> (x.i \div k) + f.i, n |-> f.n, d |-> f.d]

\* round(x, ndigits) where one unit of the result is u units of x.i
round(x, u) ==
    LET q     == x.i \div u
        twice == 2 * ((x.i % u) * x.d + x.n)
        full  == u * x.d
    IN  u * (IF twice > full \/ (twice = full /\ q % 2 = 1) THEN q + 1 ELSE q)

\* ================================================================ points engine
Roles == {"duelist", "initiator", "controller", "sentinel", "flex"}

ZeroDivisionError == [err |-> TRUE, base |-> 0, role_bonus |-> 0, total |-> 0]

\* points.py lines 40-114 for a given value of the local `deaths`
score(p, r, deaths) ==
    IF deaths = 0 THEN ZeroDivisionError      \* ka_d = (kills + assists) / deaths
    ELSE
    LET kast_pos  == IF p.kast > 0 THEN p.kast ELSE 0          \* kast_dec * 10^4
        ka_d      == [n |-> p.kills + p.assists, d |-> deaths]
        base      == round(Frac(500 * (10000 * (p.kills * 4 - deaths * 6 + p.assists
                                                + p.first_kills * 2 - p.first_deaths * 4)
                                       + 20 * p.adr)
                                + p.acs * kast_pos, 500), 1)
        _duelist  == Whole(10 * p.acs + 10000 * p.first_kills + 1000 * p.first_deaths)
        safe_kad  == IF ka_d.n > 0 THEN ka_d ELSE [n |-> 1, d |-> 1000]
        safe_kast == IF kast_pos > 0 THEN [n |-> kast_pos, d |-> 10000]
                                     ELSE [n |-> 1, d |-> 100]
        _initiator == Plus(Whole(10000 * p.assists),
                           Times(Frac(p.assists * safe_kad.d, safe_kad.n),
                                 safe_kast.d * 10000, safe_kast.n))
        _controller == Frac(7500 * p.assists * deaths + 10 * p.kast * ka_d.n, deaths)
        _sentinel == Frac(30 * p.acs + 2 * p.adr, 3)
        all_bonuses == Plus(Plus(_duelist, _initiator), Plus(_controller, _sentinel))
        rating_bonus == Frac(p.rating * (kast_pos - 7000), 100)
        divides   == r \in {"initiator", "flex"}     \* roles that call _initiator
        role_bonus == CASE r = "duelist"    -> _duelist
                        [] r = "initiator"  -> _initiator
                        [] r = "controller" -> _controller
                        [] r = "sentinel"   -> _sentinel
                        [] r = "flex"       -> Plus(Over(all_bonuses, 4), rating_bonus)
                        [] OTHER            -> Whole(0)
    IN  IF divides /\ (safe_kad.n = 0 \/ safe_kast.n = 0) THEN ZeroDivisionError
        ELSE [err        |-> FALSE,
              base       |-> base,
              role_bonus |-> round(role_bonus, 1),
              total      |-> round(Plus(Whole(base), role_bonus), 100)]

\* deaths = float(p.get("deaths", 0)) without the `or 1.0`
calculate_player_points_noclamp(p, role) ==
    score(p, IF role = "" THEN p.role ELSE role, p.deaths)

\* calculate_player_points(p, role); role = "" stands for role=None
calculate_player_points(p, role) ==
    score(p, IF role = "" THEN p.role ELSE role,
          IF p.deaths = 0 THEN 1 ELSE p.deaths)


\* ================================================================ extractor
NoValue == [none |-> TRUE]           \* Python's None

\* kast = kast_raw * 100 if 0 < kast_raw <= 1.5 else kast_raw   (hundredths)
normalize_kast_below(kast_raw) ==
    IF 0 < kast_raw /\ kast_raw < 150 THEN kast_raw * 100 ELSE kast_raw

normalize_kast(kast_raw) ==
    IF 0 < kast_raw /\ kast_raw <= 150 THEN kast_raw * 100 ELSE kast_raw

\* _safe_float of a stat cell: the number it shows, 0.0 for an absent cell,
\* an empty cell or a dash
safe_float(text, number) == IF text = "num" THEN number ELSE 0

\* A <tr> of the stats table: the cells _parse_row_by_class selects.  The
\* KAST cell is absent ("none"), empty (""), a dash ("-") or a number ("num").
RawRow(pid, k, del, d, a, fk, fd, rating, acs, ktext, kraw, adr) ==
    [player_id |-> pid, kills |-> k, deaths_el |-> del, deaths |-> d,
     assists |-> a, first_kills |-> fk, first_deaths |-> fd, rating |-> rating,
     acs |-> acs, kast_text |-> ktext, kast_raw |-> kraw, adr |-> adr]

\* _parse_row_by_class; player_id "" is a row without a player name
parse_row_by_class(row, match_id) ==
    LET deaths       == IF row.deaths_el THEN row.deaths ELSE 1
        kast_raw     == safe_float(row.kast_text, row.kast_raw)
        kast         == normalize_kast(kast_raw)
        kast_missing == row.kast_text \in {"none", "", "-"}
        missing      == (kast_missing \/ kast = 0) \/ row.adr = 0
    IN  IF row.player_id = "" THEN NoValue
        ELSE IF row.kills = 0 /\ deaths = 0 /\ row.acs = 0 /\ row.rating = 0
        THEN NoValue
        ELSE [player_id |-> row.player_id, match_id |-> match_id, role |-> "flex",
              kills |-> row.kills,
              deaths |-> IF deaths > 1 THEN deaths ELSE 1,
              assists |-> row.assists, first_kills |-> row.first_kills,
              first_deaths |-> row.first_deaths, rating |-> row.rating,
              acs |-> row.acs, kast |-> kast, adr |-> row.adr,
              stats_incomplete |-> IF missing THEN 1 ELSE 0,
              missing_fields |->
                  (IF kast_missing \/ kast = 0 THEN {"kast"} ELSE {})
                    \cup (IF row.adr = 0 THEN {"adr"} ELSE {})]

\* ================================================================ leaderboard rows
\* The columns of a players row that the scoring reads or writes.
PlayerRow(pid, role, n, st, pts, manual) ==
    [player_id |-> pid, role |-> role, matches_played |-> n,
     kills |-> st.kills, deaths |-> st.deaths, assists |-> st.assists,
     first_kills |-> st.first_kills, first_deaths |-> st.first_deaths,
     rating |-> st.rating, acs |-> st.acs, kast |-> st.kast, adr |-> st.adr,
     base_points |-> pts.base, role_points |-> pts.role_bonus,
     fantasy_points |-> pts.total, manual_pts |-> manual]

ZeroStats ==
    [kills |-> 0, deaths |-> 0, assists |-> 0, first_kills |-> 0,
     first_deaths |-> 0, rating |-> 0, acs |-> 0, kast |-> 0, adr |-> 0]

ZeroPoints == [base |-> 0, role_bonus |-> 0, total |-> 0]

\* a zero-stat player dict ready for upsert_player
make_player_stub(pid) == PlayerRow(pid, "flex", 0, ZeroStats, ZeroPoints, 0)

\* ================================================================ aggregator
RECURSIVE sum(_)
sum(xs) == IF xs = <<>> THEN 0 ELSE Head(xs) + sum(Tail(xs))

\* buckets[pid]: the rows of one player, in list order
bucket(match_player_rows, pid) ==
    SelectSeq(match_player_rows, LAMBDA r : r.player_id = pid)

\* pdata of scraper.py lines 418-429
pdata(r, role) ==
    [role |-> role, kills |-> r.kills, deaths |-> r.deaths, assists |-> r.assists,
     acs |-> r.acs, kast |-> r.kast, adr |-> r.adr, first_kills |-> r.first_kills,
     first_deaths |-> r.first_deaths, rating |-> r.rating]

\* the rows the points loop scores: every row, incomplete or not
scored_rows_all(rows) == rows

\* the rows the points loop scores: those not flagged stats_incomplete
scored_rows(rows) == SelectSeq(rows, LAMBDA r : r.stats_incomplete = 0)

\* an aggregated dict whose points are the engine's score of the aggregated
\* stats, scored once
aggregate_bucket_once(rows) ==
    LET n    == Len(rows)
        base == rows[1]
        st   == [kills        |-> sum([i \in DOMAIN rows |-> rows[i].kills]),
                 deaths       |-> sum([i \in DOMAIN rows |-> rows[i].deaths]),
                 assists      |-> sum([i \in DOMAIN rows |-> rows[i].assists]),
                 first_kills  |-> sum([i \in DOMAIN rows |-> rows[i].first_kills]),
                 first_deaths |-> sum([i \in DOMAIN rows |-> rows[i].first_deaths]),
                 rating |-> round(Frac(sum([i \in DOMAIN rows |-> rows[i].rating]), n), 1),
                 acs    |-> round(Frac(sum([i \in DOMAIN rows |-> rows[i].acs]), n), 1),
                 kast   |-> round(Frac(sum([i \in DOMAIN rows |-> rows[i].kast]), n), 1),
                 adr    |-> round(Frac(sum([i \in DOMAIN rows |-> rows[i].adr]), n), 1)]
    IN  PlayerRow(base.player_id, base.role, n, st,
                  calculate_player_points(st, base.role), 0)

\* one player's aggregated dict
aggregate_bucket(rows) ==
    LET n     == Len(rows)
        base  == rows[1]
        role  == base.role
        pts   == [i \in DOMAIN scored_rows(rows) |->
                     calculate_player_points(pdata(scored_rows(rows)[i], role), "")]
        st    == [kills        |-> sum([i \in DOMAIN rows |-> rows[i].kills]),
                  deaths       |-> sum([i \in DOMAIN rows |-> rows[i].deaths]),
                  assists      |-> sum([i \in DOMAIN rows |-> rows[i].assists]),
                  first_kills  |-> sum([i \in DOMAIN rows |-> rows[i].first_kills]),
                  first_deaths |-> sum([i \in DOMAIN rows |-> rows[i].first_deaths]),
                  rating |-> round(Frac(sum([i \in DOMAIN rows |-> rows[i].rating]), n), 1),
                  acs    |-> round(Frac(sum([i \in DOMAIN rows |-> rows[i].acs]), n), 1),
                  kast   |-> round(Frac(sum([i \in DOMAIN rows |-> rows[i].kast]), n), 1),
                  adr    |-> round(Frac(sum([i \in DOMAIN rows |-> rows[i].adr]), n), 1)]
        total == [base       |-> round(Whole(sum([i \in DOMAIN pts |-> pts[i].base])), 1),
                  role_bonus |-> round(Whole(sum([i \in DOMAIN pts |-> pts[i].role_bonus])), 1),
                  total      |-> round(Whole(sum([i \in DOMAIN pts |-> pts[i].total])), 100)]
    IN  PlayerRow(base.player_id, role, n, st, total, 0)

\* aggregate_player_stats: the aggregated dict of every player in the list
aggregate_player_stats(match_player_rows) ==
    [pid \in {match_player_rows[i].player_id : i \in DOMAIN match_player_rows} |->
        aggregate_bucket(bucket(match_player_rows, pid))]

\* ================================================================ fetching
retries == 3

\* The answers of vlr.gg to the successive requests for one URL: an HTTP
\* status, or 0 for a request that raised.
Responses == {<<500, 0, 200, 200>>, <<0, 500, 0, 200>>}

\* _get: TRUE when one of the first `retries` requests is answered 200
RECURSIVE get_from(_, _)
get_from(answers, attempt) ==
    IF attempt >= retries THEN FALSE
    ELSE IF answers[attempt + 1] = 200 THEN TRUE
    ELSE get_from(answers, attempt + 1)

get(answers) == get_from(answers, 0)

\* A match page: its id, the rows of its stats table, the player links on it.
Page(match_id, rows, links) == [match_id |-> match_id, rows |-> rows, links |-> links]

\* The header of a match page: the numbers in the score spans, the number of
\* map sections, and whether the note under the score reads TBD.
Headed(page, vals, maps, tbd) == page @@ [vals |-> vals, maps |-> maps, tbd |-> tbd]

\* _extract_match_score: (score_a, score_b, map_count, match_format, status)
extract_match_score(page) ==
    LET score_a    == IF Len(page.vals) >= 1 THEN page.vals[1] ELSE 0
        score_b    == IF Len(page.vals) >= 2 THEN page.vals[2] ELSE 0
        map_count  == IF page.maps = 0 /\ score_a + score_b > 0
                      THEN score_a + score_b ELSE page.maps
        has_scores == score_a > 0 \/ score_b > 0
    IN  IF ~has_scores /\ page.tbd
        THEN [score_a |-> 0, score_b |-> 0, map_count |-> 0, match_format |-> "",
              status |-> "upcoming"]
        ELSE [score_a |-> score_a, score_b |-> score_b, map_count |-> map_count,
              match_format |-> IF map_count > 3 THEN "bo5" ELSE "bo3",
              status |-> IF has_scores THEN "completed" ELSE "upcoming"]

\* scrape_match_page: None when the page cannot be fetched
scrape_match_page(page, answers) ==
    IF ~get(answers) THEN NoValue
    ELSE LET parsed == [i \in DOMAIN page.rows |->
                           parse_row_by_class(page.rows[i], page.match_id)]
         IN  [match_id |-> page.match_id,
              players  |-> SelectSeq(parsed, LAMBDA q : q # NoValue),
              links    |-> page.links] @@ extract_match_score(page)

\* ================================================================ leaderboard store
\* upsert_match: the INSERT names match_id, tournament_id, source_id,
\* match_url, team_a and team_b, so the other columns take their defaults;
\* ON CONFLICT(match_id, tournament_id) rewrites match_url and the team names
upsert_match(ms, data) ==
    IF \E m \in ms : m.match_id = data.match_id THEN ms
    ELSE ms \cup {[match_id |-> data.match_id, score_a |-> 0, score_b |-> 0,
                   map_count |-> 0, match_format |-> "", status |-> "completed"]}

\* upsert_match_player_stats: ON CONFLICT(player_id, match_id) every column
\* but role is overwritten
upsert_match_player_stats(mps, data) ==
    IF \E m \in mps : m.player_id = data.player_id /\ m.match_id = data.match_id
    THEN {IF m.player_id = data.player_id /\ m.match_id = data.match_id
          THEN [data EXCEPT !.role = m.role] ELSE m : m \in mps}
    ELSE mps \cup {data}

\* patch_match_player_stats: the allowed fields of the form are written as
\* given; missing_fields and stats_incomplete follow from what is still missing
patch_match_player_stats(mps, pid, match_id, fields) ==
    LET allowed == {"rating", "acs", "kills", "deaths", "assists", "kast", "adr",
                    "first_kills", "first_deaths", "headshot_pct"}
        safe    == DOMAIN fields \cap allowed
    IN  IF safe = {} THEN mps
        ELSE {IF m.player_id = pid /\ m.match_id = match_id
              THEN LET still_missing == m.missing_fields \ safe
                   IN  [f \in DOMAIN m |->
                           IF f \in safe THEN fields[f]
                           ELSE IF f = "missing_fields" THEN still_missing
                           ELSE IF f = "stats_incomplete"
                           THEN (IF still_missing # {} THEN 1 ELSE 0)
                           ELSE m[f]]
              ELSE m : m \in mps}

\* an upsert that replaces the stored row by the new one, role and
\* manual_pts included
upsert_player_replacing(rows, data) ==
    {r \in rows : r.player_id # data.player_id} \cup {data}

\* an upsert whose conflict branch adds the new points to the stored ones
upsert_player_adding(rows, data) ==
    IF \E r \in rows : r.player_id = data.player_id
    THEN {IF r.player_id = data.player_id
          THEN [data EXCEPT !.role = r.role, !.manual_pts = r.manual_pts,
                            !.fantasy_points = r.fantasy_points + data.fantasy_points]
          ELSE r : r \in rows}
    ELSE rows \cup {data}

\* upsert_player: ON CONFLICT(player_id, tournament_id) every column but role
\* and manual_pts is overwritten
upsert_player(rows, data) ==
    IF \E r \in rows : r.player_id = data.player_id
    THEN {IF r.player_id = data.player_id
          THEN [data EXCEPT !.role = r.role, !.manual_pts = r.manual_pts]
          ELSE r : r \in rows}
    ELSE rows \cup {data}

\* a registration that upserts the stub whether or not a row exists
register_stub_always(rows, pid) == upsert_player(rows, make_player_stub(pid))

\* the stub of pid is upserted only `if existing is None`
register_stub(rows, pid) ==
    IF \E r \in rows : r.player_id = pid THEN rows
    ELSE upsert_player(rows, make_player_stub(pid))

RECURSIVE register_stubs(_, _)
register_stubs(rows, pids) ==
    IF pids = {} THEN rows
    ELSE LET pid == CHOOSE q \in pids : TRUE
         IN  register_stubs(register_stub(rows, pid), pids \ {pid})

RECURSIVE store_rows(_, _)
store_rows(mps, prows) ==
    IF prows = <<>> THEN mps
    ELSE store_rows(upsert_match_player_stats(mps, Head(prows)), Tail(prows))

RECURSIVE upsert_players(_, _)
upsert_players(rows, aggregated) ==
    IF DOMAIN aggregated = {} THEN rows
    ELSE LET pid == CHOOSE q \in DOMAIN aggregated : TRUE
         IN  upsert_players(upsert_player(rows, aggregated[pid]),
                            [q \in DOMAIN aggregated \ {pid} |-> aggregated[q]])

\* the rows of a table in some order
RECURSIVE fetchall(_)
fetchall(table) ==
    IF table = {} THEN <<>>
    ELSE LET m == CHOOSE q \in table : TRUE
         IN  <<m>> \o fetchall(table \ {m})

\* recalculate_tournament_points
recalculate_tournament_points(mps, rows) ==
    IF mps = {}
    THEN {LET v == calculate_player_points(r, "")
          IN  [r EXCEPT !.base_points = v.base, !.role_points = v.role_bonus,
                        !.fantasy_points = v.total] : r \in rows}
    ELSE {IF bucket(fetchall(mps), r.player_id) = <<>> THEN r
          ELSE LET mine == bucket(fetchall(mps), r.player_id)
                   pts  == [i \in DOMAIN mine |->
                               calculate_player_points(pdata(mine[i], r.role), "")]
               IN  [r EXCEPT
                      !.base_points = round(Whole(sum([i \in DOMAIN pts |-> pts[i].base])), 1),
                      !.role_points = round(Whole(sum([i \in DOMAIN pts |-> pts[i].role_bonus])), 1),
                      !.fantasy_points = round(Whole(sum([i \in DOMAIN pts |-> pts[i].total])), 100)]
          : r \in rows}

\* ================================================================ scrape_source
\* the loop over match_urls without the `if result is None: continue`: the
\* first page it cannot fetch raises on result["match_id"]
RECURSIVE scrape_pages_raising(_, _, _, _)
scrape_pages_raising(pages, answers, i, st) ==
    IF i > Len(pages) THEN st
    ELSE LET result == scrape_match_page(pages[i], answers[i])
         IN  IF result = NoValue THEN [st EXCEPT !.raised = TRUE]
             ELSE IF result.players # <<>>
             THEN scrape_pages_raising(pages, answers, i + 1,
                      [st EXCEPT !.mps = store_rows(st.mps, result.players),
                                 !.all_player_rows = st.all_player_rows \o result.players,
                                 !.matches_scraped = st.matches_scraped + 1])
             ELSE scrape_pages_raising(pages, answers, i + 1,
                      [st EXCEPT !.rows = register_stubs(st.rows, result.links),
                                 !.stub_count = st.stub_count + Cardinality(
                                     {q \in result.links :
                                         ~\E r \in st.rows : r.player_id = q})])

\* the loop over match_urls, scraper.py lines 961-1009
RECURSIVE scrape_pages(_, _, _, _)
scrape_pages(pages, answers, i, st) ==
    IF i > Len(pages) THEN st
    ELSE LET result == scrape_match_page(pages[i], answers[i])
         IN  IF result = NoValue THEN scrape_pages(pages, answers, i + 1, st)
             ELSE IF result.players # <<>>
             THEN scrape_pages(pages, answers, i + 1,
                      [st EXCEPT !.mps = store_rows(st.mps, result.players),
                                 !.all_player_rows = st.all_player_rows \o result.players,
                                 !.matches_scraped = st.matches_scraped + 1])
             ELSE scrape_pages(pages, answers, i + 1,
                      [st EXCEPT !.rows = register_stubs(st.rows, result.links),
                                 !.stub_count = st.stub_count + Cardinality(
                                     {q \in result.links :
                                         ~\E r \in st.rows : r.player_id = q})])

\* the matches table after the loop of scrape_source: upsert_match for every
\* page that scrape_match_page returns a result for
RECURSIVE upsert_matches(_, _, _, _)
upsert_matches(pages, answers, i, ms) ==
    IF i > Len(pages) THEN ms
    ELSE LET result == scrape_match_page(pages[i], answers[i])
         IN  upsert_matches(pages, answers, i + 1,
                 IF result = NoValue THEN ms ELSE upsert_match(ms, result))

\* scrape_source: (player_count, status) and the tables it leaves
scrape_source(pages, answers, mps, rows) ==
    IF pages = <<>>
    THEN [count |-> 0, path |-> "no_urls", mps |-> mps, rows |-> rows,
          all_player_rows |-> <<>>]
    ELSE LET st == scrape_pages(pages, answers, 1,
                       [mps |-> mps, rows |-> rows, all_player_rows |-> <<>>,
                        stub_count |-> 0, matches_scraped |-> 0, raised |-> FALSE])
         IN  IF st.raised               \* except Exception: return 0, "Scrape failed"
             THEN [count |-> 0, path |-> "exception", mps |-> st.mps,
                   rows |-> st.rows, all_player_rows |-> st.all_player_rows]
             ELSE IF st.all_player_rows = <<>>
             THEN [count |-> st.stub_count, path |-> "no_data", mps |-> st.mps,
                   rows |-> st.rows, all_player_rows |-> <<>>]
             ELSE LET aggregated == aggregate_player_stats(st.all_player_rows)
                  IN  [count |-> Cardinality(DOMAIN aggregated), path |-> "scraped",
                       mps |-> st.mps,
                       rows |-> upsert_players(st.rows, aggregated),
                       all_player_rows |-> st.all_player_rows]

\* ================================================================ handlers
\* POST /team/<id>/add_player
add_player(t, p, slot, ph) ==
    /\ t \in teams
    /\ IF Cardinality(get_roster(roster, players, t, ph)) >= total_players
       THEN /\ roster' = roster
            /\ last' = Done("add_player", "full", "error")
       ELSE LET res == add_player_to_roster(roster, t, p, slot, ph)
            IN  /\ roster' = res.roster
                /\ last' = IF res.ok THEN Done("add_player", "added", "success")
                                     ELSE Done("add_player", "dup", "warning")
    /\ UNCHANGED <<scoring, teams, total_players, players, trades, drafts>>

\* POST /team/<id>/remove_player
remove_player(t, p, ph) ==
    /\ roster' = remove_player_from_roster(roster, t, p, ph)
    /\ last' = Done("remove_player", "removed", "success")
    /\ UNCHANGED <<scoring, teams, total_players, players, trades, drafts>>

\* POST /team/<id>/set_star
set_star(t, p, ph) ==
    /\ t \in teams
    /\ roster' = set_star_player(roster, t, p, ph)
    /\ last' = Done("set_star", "set", "success")
    /\ UNCHANGED <<scoring, teams, total_players, players, trades, drafts>>

\* POST /team/<id>/clear_star
clear_star(t, ph) ==
    /\ roster' = clear_star_player(roster, t, ph)
    /\ last' = Done("clear_star", "cleared", "success")
    /\ UNCHANGED <<scoring, teams, total_players, players, trades, drafts>>

\* POST /league/<id>/trades/propose
propose_trade(ft, tt, fp, tp) ==
    /\ Len(trades) < MaxTrades
    /\ IF ft = tt
       THEN /\ trades' = trades
            /\ last' = Done("propose_trade", "self", "error")
       ELSE /\ trades' = Append(trades, TradeRow(ft, tt, fp, tp))
            /\ last' = Done("propose_trade", "proposed", "success")
    /\ UNCHANGED <<scoring, teams, total_players, players, roster, drafts>>

\* POST /trade/<id>/accept
accept_trade(id) ==
    /\ \E o \in resolve_trade(roster, trades, id, "accepted") :
          /\ roster' = o.roster
          /\ trades' = o.trades
          /\ last' = Done("accept_trade", o.path, o.ret)
    /\ UNCHANGED <<scoring, teams, total_players, players, drafts>>

\* POST /trade/<id>/reject
reject_trade(id) ==
    /\ \E o \in resolve_trade(roster, trades, id, "rejected") :
          /\ roster' = o.roster
          /\ trades' = o.trades
          /\ last' = Done("reject_trade", o.path, o.ret)
    /\ UNCHANGED <<scoring, teams, total_players, players, drafts>>

\* POST /trade/<id>/cancel: UPDATE trades SET status='cancelled' WHERE id=?
cancel_trade(id) ==
    /\ trades' = IF id \in DOMAIN trades THEN SetStatus(trades, id, "cancelled")
                                         ELSE trades
    /\ last' = Done("cancel_trade", "cancelled", "success")
    /\ UNCHANGED <<scoring, teams, total_players, players, roster, drafts>>

\* POST /league/<id>/draft/start
start_draft(ph) ==
    /\ Len(drafts) < MaxDrafts
    /\ drafts' = create_draft_session(drafts, teams, total_players, ph)
    /\ last' = Done("start_draft", "started", "success")
    /\ UNCHANGED <<scoring, teams, total_players, players, roster, trades>>

\* POST /league/<id>/draft/pick ("" = no player_id in the form)
draft_pick(p, slot) ==
    LET sid == get_active_draft(drafts)
    IN  /\ IF sid = 0
           THEN /\ last' = Done("draft_pick", "no_draft", "error")
                /\ UNCHANGED <<roster, drafts>>
           ELSE LET cur == get_current_drafter(drafts[sid])
                IN  IF p = "" \/ cur = 0
                    THEN /\ last' = Done("draft_pick", "invalid", "error")
                         /\ UNCHANGED <<roster, drafts>>
                    ELSE LET res == add_player_to_roster(roster, cur, p, slot,
                                                         drafts[sid].phase)
                         IN  /\ roster' = res.roster
                             /\ drafts' = IF res.ok THEN advance_draft(drafts, sid)
                                                    ELSE drafts
                             /\ last' = IF res.ok
                                        THEN Done("draft_pick", "picked", "success")
                                        ELSE Done("draft_pick", "dup", "error")
        /\ UNCHANGED <<scoring, teams, total_players, players, trades>>

\* POST /league/<id>/draft/reset
reset_draft ==
    /\ drafts' = [i \in DOMAIN drafts |->
                    IF drafts[i].status = "active"
                    THEN [drafts[i] EXCEPT !.status = "cancelled"] ELSE drafts[i]]
    /\ last' = Done("reset_draft", "reset", "success")
    /\ UNCHANGED <<scoring, teams, total_players, players, roster, trades>>


\* ---------------------------------------------------------------- draft_pick, statement by statement
\* Each request of the threaded server runs draft_pick on its own connection;
\* a step is one database call of the handler, committed on return.
\* session = db.get_active_draft(league_id); player_id from the form
pick_get_active_draft(r, p) ==
    /\ requests[r].pc = "idle"
    /\ LET sid == get_active_draft(drafts)
       IN  IF sid = 0
           THEN /\ requests' = requests
                /\ last' = Done("draft_pick", "no_draft", "error")
           ELSE /\ requests' = [requests EXCEPT ![r] =
                       [Idle EXCEPT !.pc = "session", !.player = p, !.sid = sid,
                                    !.phase = drafts[sid].phase]]
                /\ last' = Done("draft_pick", "session", "")
    /\ UNCHANGED <<league, players, site, fetched, match_player_stats, board,
                   followed_teams, match_results, point_adjustments, arg, out,
                   player_adjustments, matches>>

\* current_team_id = db.get_current_drafter(session["id"]) and the
\* "Invalid pick." test
pick_get_current_drafter(r) ==
    /\ requests[r].pc = "session"
    /\ LET cur == get_current_drafter(drafts[requests[r].sid])
       IN  IF requests[r].player = "" \/ cur = 0
           THEN /\ requests' = [requests EXCEPT ![r] = Idle]
                /\ last' = Done("draft_pick", "invalid", "error")
           ELSE /\ requests' = [requests EXCEPT ![r].pc = "insert", ![r].team = cur]
                /\ last' = Done("draft_pick", "drafter", "")
    /\ UNCHANGED <<league, players, site, fetched, match_player_stats, board,
                   followed_teams, match_results, point_adjustments, arg, out,
                   player_adjustments, matches>>

\* ok = db.add_player_to_roster(current_team_id, player_id, ...,
\* session["phase"], ...)
pick_add_player_to_roster(r) ==
    /\ requests[r].pc = "insert"
    /\ LET res == add_player_to_roster(roster, requests[r].team, requests[r].player,
                                       "flex", requests[r].phase)
       IN  /\ roster' = res.roster
           /\ IF res.ok
              THEN /\ requests' = [requests EXCEPT ![r].pc = "advance"]
                   /\ last' = Done("draft_pick", "inserted", "")
              ELSE /\ requests' = [requests EXCEPT ![r] = Idle]
                   /\ last' = Done("draft_pick", "dup", "error")
    /\ UNCHANGED <<teams, total_players, trades, drafts, players, site, fetched,
                   match_player_stats, board, followed_teams, match_results,
                   point_adjustments, arg, out, player_adjustments, matches>>

\* advance_draft: SELECT * FROM draft_sessions WHERE id=?
pick_advance_select(r) ==
    /\ requests[r].pc = "advance"
    /\ requests' = [requests EXCEPT ![r].pc = "update",
                                    ![r].pick = drafts[requests[r].sid].current_pick]
    /\ last' = Done("draft_pick", "select", "")
    /\ UNCHANGED <<league, players, site, fetched, match_player_stats, board,
                   followed_teams, match_results, point_adjustments, arg, out,
                   player_adjustments, matches>>

\* advance_draft: the UPDATE with new_pick = draft["current_pick"] + 1
pick_advance_update(r) ==
    /\ requests[r].pc = "update"
    /\ LET sid      == requests[r].sid
           new_pick == requests[r].pick + 1
       IN  drafts' = IF new_pick > drafts[sid].total_picks
                     THEN [drafts EXCEPT ![sid].status = "complete",
                                         ![sid].current_pick = new_pick]
                     ELSE [drafts EXCEPT ![sid].current_pick = new_pick]
    /\ requests' = [requests EXCEPT ![r] = Idle]
    /\ last' = Done("draft_pick", "picked", "success")
    /\ UNCHANGED <<teams, total_players, roster, trades, players, site, fetched,
                   match_player_stats, board, followed_teams, match_results,
                   point_adjustments, arg, out, player_adjustments, matches>>

\* ---------------------------------------------------------------- scoring
\* calculate_player_points applied to the record and role under test
apply_calculate_player_points ==
    /\ out' = [arg |-> arg, val |-> calculate_player_points(arg.p, arg.role)]
    /\ last' = Done("calculate_player_points", "", "")
    /\ UNCHANGED <<rest, league, players, site, fetched, match_player_stats, board,
                   followed_teams, match_results, point_adjustments, arg>>

\* _parse_row_by_class applied to the table row under test
apply_parse_row_by_class ==
    /\ out' = [arg |-> arg, val |-> parse_row_by_class(arg, "m1")]
    /\ last' = Done("_parse_row_by_class", "", "")
    /\ UNCHANGED <<rest, league, players, site, fetched, match_player_stats, board,
                   followed_teams, match_results, point_adjustments, arg>>

\* aggregate_player_stats applied to the list of match rows under test
apply_aggregate_player_stats ==
    /\ out' = [arg |-> arg, val |-> aggregate_player_stats(arg)]
    /\ last' = Done("aggregate_player_stats", "", "")
    /\ UNCHANGED <<rest, league, players, site, fetched, match_player_stats, board,
                   followed_teams, match_results, point_adjustments, arg>>

\* ---------------------------------------------------------------- scraping
player_ids(rows) == {r.player_id : r \in rows}

\* POST /tournaments/<id>/scrape_source/<source_id>; answers[i] are the
\* answers of vlr.gg to the requests for the i-th match URL.  out records
\* whether the request repeats the one just before it, and the player count.
scrape_single_source(answers) ==
    \E o \in {scrape_source(site, answers, match_player_stats, board)} :
    \E b \in {IF o.count > 0 THEN recalculate_tournament_points(o.mps, o.rows)
                              ELSE o.rows} :
        /\ match_player_stats' = o.mps
        /\ board' = b
        /\ players' = player_ids(b)
        /\ fetched' = {i \in DOMAIN site : get(answers[i])}
        /\ out' = [arg |-> /\ last.op = "scrape_single_source"
                            /\ fetched = {i \in DOMAIN site : get(answers[i])},
                    val |-> o.count]
        /\ matches' = upsert_matches(site, answers, 1, matches)
        /\ last' = Done("scrape_single_source", o.path,
                        IF o.count > 0 THEN "success" ELSE "error")
        /\ UNCHANGED <<league, site, followed_teams, match_results,
                       point_adjustments, arg, requests, player_adjustments>>

\* POST /tournaments/<id>/recalculate
recalculate_points ==
    /\ board' = recalculate_tournament_points(match_player_stats, board)
    /\ last' = Done("recalculate_points", "", "success")
    /\ UNCHANGED <<rest, league, players, site, fetched, match_player_stats,
                   followed_teams, match_results, point_adjustments, arg, out>>

\* POST /tournament/<id>/player/<player_id>/set_role
set_player_role(pid, role) ==
    /\ board' = {IF r.player_id = pid
                 THEN LET v == calculate_player_points(r, role)
                      IN  [r EXCEPT !.role = role, !.base_points = v.base,
                                    !.role_points = v.role_bonus,
                                    !.fantasy_points = v.total]
                 ELSE r : r \in board}
    /\ last' = Done("set_player_role", pid, "success")
    /\ UNCHANGED <<rest, league, players, site, fetched, match_player_stats,
                   followed_teams, match_results, point_adjustments, arg, out>>

\* POST /tournament/<id>/scrape_rosters; found are the players the event
\* pages list
scrape_rosters(found) ==
    /\ board' = register_stubs(board, found)
    /\ players' = player_ids(register_stubs(board, found))
    /\ last' = Done("scrape_rosters", "",
                    IF found # {} THEN "success" ELSE "warning")
    /\ UNCHANGED <<rest, league, site, fetched, match_player_stats,
                   followed_teams, match_results, point_adjustments, arg, out>>

\* ================================================================ standings
\* the sum of the values of a function
RECURSIVE total_of(_)
total_of(f) ==
    IF DOMAIN f = {} THEN 0
    ELSE LET x == CHOOSE y \in DOMAIN f : TRUE
         IN  f[x] + total_of([y \in DOMAIN f \ {x} |-> f[y]])

\* calculate_team_follow_points, in ten-thousandths of a point
calculate_team_follow_points(followed, results, t) ==
    IF followed[t] = "" THEN 0
    ELSE LET mine == {i \in DOMAIN results : results[i].team_name = followed[t]}
         IN  total_of([i \in mine |->
                 IF results[i].result = "win"
                 THEN (IF results[i].format = "bo3" THEN 1000000 ELSE 750000)
                 ELSE (IF results[i].format = "bo3" THEN -750000 ELSE -500000)])

\* get_total_adjustments: COALESCE(SUM(amount), 0)
get_total_adjustments(adjustments, t) ==
    total_of([i \in {j \in DOMAIN adjustments : adjustments[j].team = t} |->
                 adjustments[i].amount])

\* base_pts of a roster entry: the joined players row's fantasy_points + manual_pts
base_pts(rows, e) ==
    LET p == CHOOSE r \in rows : r.player_id = e.player
    IN  p.fantasy_points + p.manual_pts

\* a standings entry in which the star entry earns no bonus
standing_nostar(ros, rows, followed, results, adjustments, t, ph) ==
    LET entries    == get_roster(ros, player_ids(rows), t, ph)
        player_pts == total_of([e \in entries |-> base_pts(rows, e)])
        follow_pts == calculate_team_follow_points(followed, results, t)
        adj_pts    == get_total_adjustments(adjustments, t)
    IN  [player_pts |-> round(Whole(player_pts), 100), star_bonus |-> 0,
         follow_pts |-> round(Whole(follow_pts), 100),
         adj_pts |-> round(Whole(adj_pts), 100),
         player_count |-> Cardinality(entries),
         total_points |-> round(Whole(player_pts + follow_pts + adj_pts), 100)]

\* the standings entry get_phase_standings builds for team t; star_twice is
\* twice the unrounded star bonus
standing(ros, rows, followed, results, adjustments, t, ph) ==
    LET entries    == get_roster(ros, player_ids(rows), t, ph)
        player_pts == total_of([e \in entries |-> base_pts(rows, e)])
        star_twice == total_of([e \in {x \in entries : x.is_star} |->
                                   base_pts(rows, e)])
        follow_pts == calculate_team_follow_points(followed, results, t)
        adj_pts    == get_total_adjustments(adjustments, t)
    IN  [player_pts |-> round(Whole(player_pts), 100),
         star_bonus |-> round(Frac(star_twice, 2), 100),
         follow_pts |-> round(Whole(follow_pts), 100),
         adj_pts |-> round(Whole(adj_pts), 100),
         player_count |-> Cardinality(entries),
         total_points |-> round(Plus(Whole(player_pts + follow_pts + adj_pts),
                                     Frac(star_twice, 2)), 100)]

\* get_phase_standings, by team id (the list is sorted by total_points)
get_phase_standings(ts, ros, rows, followed, results, adjustments, ph) ==
    [t \in ts |-> standing(ros, rows, followed, results, adjustments, t, ph)]

\* an overall total that takes the swiss total alone
get_overall_standings_swiss(ts, ros, rows, followed, results, adjustments) ==
    LET swiss == get_phase_standings(ts, ros, rows, followed, results, adjustments, "swiss")
    IN  [t \in ts |-> [swiss_pts |-> swiss[t].total_points, playoffs_pts |-> 0,
                       total_points |-> swiss[t].total_points]]

\* get_overall_standings, by team id
get_overall_standings(ts, ros, rows, followed, results, adjustments) ==
    LET swiss    == get_phase_standings(ts, ros, rows, followed, results,
                                        adjustments, "swiss")
        playoffs == get_phase_standings(ts, ros, rows, followed, results,
                                        adjustments, "playoffs")
    IN  [t \in ts |->
            [swiss_pts    |-> swiss[t].total_points,
             playoffs_pts |-> playoffs[t].total_points,
             total_points |-> round(Whole(swiss[t].total_points
                                          + playoffs[t].total_points), 100)]]

\* POST /tournament/<id>/matches/<match_id>/patch_stats; fields are the
\* non-empty stat fields of the form, each read with float()
patch_match_stats(match_id, pid, fields) ==
    /\ IF pid # "" /\ DOMAIN fields # {}
       THEN /\ match_player_stats' =
                   patch_match_player_stats(match_player_stats, pid, match_id, fields)
            /\ last' = Done("patch_match_stats", "patched", "success")
       ELSE /\ match_player_stats' = match_player_stats
            /\ last' = Done("patch_match_stats", "nothing", "")
    /\ UNCHANGED <<rest, league, players, site, fetched, board, followed_teams,
                   match_results, point_adjustments, arg, out>>

\* ---------------------------------------------------------------- standings inputs
\* POST /team/<id>/set_followed_team ("" = empty team_name: the row is removed)
set_followed_team(t, team_name) ==
    /\ followed_teams' = [followed_teams EXCEPT ![t] = team_name]
    /\ last' = Done("set_followed_team", IF team_name = "" THEN "removed" ELSE "set",
                    "success")
    /\ UNCHANGED <<rest, league, players, site, fetched, match_player_stats, board,
                   match_results, point_adjustments, arg, out>>

\* POST /tournaments/<id>/add_result
add_match_result(team_name, result, fmt) ==
    /\ Len(match_results) < MaxResults
    /\ IF team_name = ""
       THEN /\ match_results' = match_results
            /\ last' = Done("add_match_result", "no_team", "error")
       ELSE /\ match_results' = Append(match_results,
                [team_name |-> team_name, result |-> result, format |-> fmt])
            /\ last' = Done("add_match_result", "added", "success")
    /\ UNCHANGED <<rest, league, players, site, fetched, match_player_stats, board,
                   followed_teams, point_adjustments, arg, out>>

\* POST /team/<id>/add_adjustment
add_adjustment(t, amount) ==
    /\ Len(point_adjustments) < MaxAdjustments
    /\ point_adjustments' = Append(point_adjustments, [team |-> t, amount |-> amount])
    /\ last' = Done("add_adjustment", "added", "success")
    /\ UNCHANGED <<rest, league, players, site, fetched, match_player_stats, board,
                   followed_teams, match_results, arg, out>>

\* ---------------------------------------------------------------- manual player points
\* adjust_player_points: manual_pts + delta on the players row, one more
\* player_adjustments row (AUTOINCREMENT id)
adjust_player_points(rows, ledger, pid, delta) ==
    [rows   |-> {IF r.player_id = pid
                 THEN [r EXCEPT !.manual_pts = r.manual_pts + delta] ELSE r :
                 r \in rows},
     ledger |-> Append(ledger, [player_id |-> pid, delta |-> delta, live |-> TRUE])]

\* delete_player_adjustment: DELETE ... WHERE id=?, then manual_pts - delta
\* on the players row of player_id
delete_player_adjustment(rows, ledger, adj_id, pid, delta) ==
    [rows   |-> {IF r.player_id = pid
                 THEN [r EXCEPT !.manual_pts = r.manual_pts - delta] ELSE r :
                 r \in rows},
     ledger |-> IF adj_id \in DOMAIN ledger
                THEN [ledger EXCEPT ![adj_id].live = FALSE] ELSE ledger]

\* POST /tournament/<id>/player/<player_id>/adjust
adjust_player(pid, delta) ==
    /\ Len(player_adjustments) < MaxLedger
    /\ IF delta # 0
       THEN LET o == adjust_player_points(board, player_adjustments, pid, delta)
            IN  /\ board' = o.rows
                /\ player_adjustments' = o.ledger
                /\ last' = Done("adjust_player", "applied", "success")
       ELSE /\ UNCHANGED <<board, player_adjustments>>
            /\ last' = Done("adjust_player", "zero", "")
    /\ UNCHANGED <<league, players, site, fetched, match_player_stats,
                   followed_teams, match_results, point_adjustments, arg, out,
                   requests, matches>>

\* POST /tournament/<id>/player/<player_id>/adjustment/<adj_id>/delete; the
\* delta is a field of the form
delete_player_adj(adj_id, pid, delta) ==
    /\ \A r \in board : r.player_id = pid =>
          /\ r.manual_pts - delta <= MaxManual * 50000
          /\ delta - r.manual_pts <= MaxManual * 50000
    /\ LET o == delete_player_adjustment(board, player_adjustments, adj_id, pid, delta)
       IN  /\ board' = o.rows
           /\ player_adjustments' = o.ledger
    /\ last' = Done("delete_player_adj", "removed", "success")
    /\ UNCHANGED <<league, players, site, fetched, match_player_stats,
                   followed_teams, match_results, point_adjustments, arg, out,
                   requests, matches>>

\* ================================================================ specifications
Fresh == Done("init", "", "")

Known == {"p1", "p2"}                \* the player_ids of the players table

\* no request in flight, no manual adjustment, no match stored
NoRest ==
    /\ requests = [r \in Requests |-> Idle]
    /\ player_adjustments = <<>>
    /\ matches = {}

\* the tables of a database in which nothing was scraped or scored yet
NoScoring ==
    /\ site = <<>>
    /\ fetched = {}
    /\ match_player_stats = {}
    /\ board = {make_player_stub(p) : p \in Known}
    /\ followed_teams = [t \in TeamIds |-> ""]
    /\ match_results = <<>>
    /\ point_adjustments = <<>>
    /\ NoRest
    /\ arg = NoValue
    /\ out = NoValue

\* a database without a league
NoLeague ==
    /\ teams = {}
    /\ total_players = 0
    /\ roster = {}
    /\ trades = <<>>
    /\ drafts = <<>>

\* ---- trades: rosters filled by add_player, every trade handler
InitTrade ==
    /\ teams = {1, 2}
    /\ total_players = MaxCap
    /\ players = Known
    /\ roster = {}
    /\ trades = <<>>
    /\ drafts = <<>>
    /\ last = Fresh
    /\ NoScoring

NextTrade ==
    \/ \E t \in teams, p \in Known, ph \in Phases : add_player(t, p, "flex", ph)
    \/ \E t \in teams, p \in Known, ph \in Phases \cup {NoPhase} :
          remove_player(t, p, ph)
    \/ \E tt \in teams, fp \in Known, tp \in Known : propose_trade(1, tt, fp, tp)
    \/ \E id \in 1..MaxTrades : accept_trade(id)
    \/ \E id \in 1..MaxTrades : reject_trade(id)
    \/ \E id \in 1..MaxTrades : cancel_trade(id)

SpecTrade == InitTrade /\ [][NextTrade]_vars

\* ---- roster adds: one team, a player_id without a players row among the inputs
InitRoster ==
    /\ teams = {1}
    /\ total_players \in 1..MaxCap
    /\ players = Known
    /\ roster = {}
    /\ trades = <<>>
    /\ drafts = <<>>
    /\ last = Fresh
    /\ NoScoring

NextRoster ==
    \/ \E t \in teams, p \in PlayerIds, slot \in RoleSlots, ph \in Phases :
          add_player(t, p, slot, ph)
    \/ \E t \in teams, p \in PlayerIds, ph \in Phases \cup {NoPhase} :
          remove_player(t, p, ph)

SpecRoster == InitRoster /\ [][NextRoster]_vars

\* ---- stars: every handler that writes fantasy_roster, with one trade
\* proposed and one draft started beforehand
InitStar ==
    /\ teams = {1, 2}
    /\ total_players = 1
    /\ players = Known
    /\ roster = {}
    /\ trades = <<TradeRow(1, 2, "p1", "p2")>>
    /\ \E ph \in Phases : drafts = create_draft_session(<<>>, teams, total_players, ph)
    /\ last = Fresh
    /\ NoScoring

NextStar ==
    \/ \E t \in teams, p \in Known, ph \in Phases : add_player(t, p, "flex", ph)
    \/ \E t \in teams, p \in Known, ph \in Phases \cup {NoPhase} :
          remove_player(t, p, ph)
    \/ \E t \in teams, p \in Known, ph \in Phases : set_star(t, p, ph)
    \/ \E t \in teams, ph \in Phases : clear_star(t, ph)
    \/ \E p \in Known : draft_pick(p, "flex")
    \/ accept_trade(1)

SpecStar == InitStar /\ [][NextStar]_vars

\* ---- snake order: any league of up to three teams, any cap
InitSnake ==
    /\ teams \in SUBSET TeamIds
    /\ total_players \in 0..MaxCap
    /\ players = Known
    /\ roster = {}
    /\ trades = <<>>
    /\ drafts = <<>>
    /\ last = Fresh
    /\ NoScoring

NextSnake ==
    \/ \E ph \in Phases : start_draft(ph)
    \/ reset_draft

SpecSnake == InitSnake /\ [][NextSnake]_vars

\* ---- draft: sessions started, picked from and reset
InitDraft ==
    /\ teams \in {{1, 2}, {2, 3}}
    /\ total_players \in 1..MaxCap
    /\ players = Known
    /\ roster = {}
    /\ trades = <<>>
    /\ drafts = <<>>
    /\ last = Fresh
    /\ NoScoring

NextDraft ==
    \/ \E ph \in Phases : start_draft(ph)
    \/ \E p \in Known \cup {""} : draft_pick(p, "flex")
    \/ reset_draft

SpecDraft == InitDraft /\ [][NextDraft]_vars


\* ---- concurrent picks: two draft_pick requests on one active session
InitPicks ==
    /\ teams = {1, 2}
    /\ total_players \in 1..MaxCap
    /\ players = Known
    /\ roster = {}
    /\ trades = <<>>
    /\ drafts = create_draft_session(<<>>, teams, total_players, "swiss")
    /\ last = Fresh
    /\ NoScoring

NextPicks ==
    \/ \E r \in Requests, p \in PlayerIds \cup {""} : pick_get_active_draft(r, p)
    \/ \E r \in Requests : pick_get_current_drafter(r)
    \/ \E r \in Requests : pick_add_player_to_roster(r)
    \/ \E r \in Requests : pick_advance_select(r)
    \/ \E r \in Requests : pick_advance_update(r)

SpecPicks == InitPicks /\ [][NextPicks]_vars

\* ---- manual points: adjustments applied and removed; a removal is posted
\* from a player page that lists the adjustment, possibly a stale one
InitLedger ==
    /\ NoLeague
    /\ players = Known
    /\ last = Fresh
    /\ NoScoring

NextLedger ==
    \/ \E pid \in PlayerIds, delta \in {0, 50000, -25000} : adjust_player(pid, delta)
    \/ \E adj_id \in DOMAIN player_adjustments :
          delete_player_adj(adj_id, player_adjustments[adj_id].player_id,
                            player_adjustments[adj_id].delta)

SpecLedger == InitLedger /\ [][NextLedger]_vars

\* ---- points engine: one record scored under one role
StatRecord(k, d, a, fk, fd, rating, acs, kast, adr, role) ==
    [kills |-> k, deaths |-> d, assists |-> a, first_kills |-> fk,
     first_deaths |-> fd, rating |-> rating, acs |-> acs, kast |-> kast,
     adr |-> adr, role |-> role]

PointInputs ==
    {[p |-> StatRecord(k, d, a, fk, fd, rating, acs, kast, adr, "flex"), role |-> r] :
        k \in {0, 2}, d \in {0, 1, 3}, a \in {0, 3}, fk \in {0, 1}, fd \in {0, 2},
        rating \in {0, 1120}, acs \in {0, 20100}, kast \in {0, 151, 8000},
        adr \in {0, 13000}, r \in Roles \cup {"", "coach"}}

InitPoints ==
    /\ NoLeague
    /\ players = {}
    /\ last = Fresh
    /\ site = <<>>
    /\ fetched = {}
    /\ match_player_stats = {}
    /\ board = {}
    /\ followed_teams = [t \in TeamIds |-> ""]
    /\ match_results = <<>>
    /\ point_adjustments = <<>>
    /\ NoRest
    /\ arg \in PointInputs
    /\ out = NoValue

NextPoints == apply_calculate_player_points

SpecPoints == InitPoints /\ [][NextPoints]_vars

\* ---- extractor: one table row parsed
RawRows ==
    {RawRow(pid, k, del, d, 3, 1, 0, rating, acs, ktext, kraw, adr) :
        pid \in {"", "p1"}, k \in {0, 2}, del \in BOOLEAN, d \in {0, 3},
        rating \in {0, 1120}, acs \in {0, 20100},
        ktext \in {"none", "", "-", "num"}, kraw \in {0, 80, 140, 150, 151, 8000},
        adr \in {0, 13000}}

InitParse ==
    /\ NoLeague
    /\ players = {}
    /\ last = Fresh
    /\ site = <<>>
    /\ fetched = {}
    /\ match_player_stats = {}
    /\ board = {}
    /\ followed_teams = [t \in TeamIds |-> ""]
    /\ match_results = <<>>
    /\ point_adjustments = <<>>
    /\ NoRest
    /\ arg \in RawRows
    /\ out = NoValue

NextParse == apply_parse_row_by_class

SpecParse == InitParse /\ [][NextParse]_vars

\* ---- aggregator: a list of parsed match rows aggregated
\* three table rows per player: complete, KAST cell a dash, complete
RowA(pid) == RawRow(pid, 2, TRUE, 3, 3, 1, 0, 1120, 20100, "num", 80, 13000)
RowB(pid) == RawRow(pid, 2, TRUE, 3, 3, 1, 0, 1120, 20100, "-", 0, 13000)
RowC(pid) == RawRow(pid, 5, TRUE, 1, 0, 0, 2, 900, 15000, "num", 7500, 9000)
RowD(pid) == RawRow(pid, 2, TRUE, 3, 3, 1, 0, 1120, 24800, "num", 6250, 13000)

TableRows(pid) == {RowA(pid), RowB(pid), RowC(pid), RowD(pid)}

MatchIds == <<"m1", "m2", "m3", "m4">>

\* the lists of n parsed rows, the i-th from match MatchIds[i]
RowLists(n) ==
    {[i \in 1..n |-> parse_row_by_class(raw[i], MatchIds[i])] :
        raw \in [1..n -> UNION {TableRows(pid) : pid \in Known}]}

InitAggregate ==
    /\ NoLeague
    /\ players = {}
    /\ last = Fresh
    /\ site = <<>>
    /\ fetched = {}
    /\ match_player_stats = {}
    /\ board = {}
    /\ followed_teams = [t \in TeamIds |-> ""]
    /\ match_results = <<>>
    /\ point_adjustments = <<>>
    /\ NoRest
    /\ \E n \in 1..MaxRows : arg \in RowLists(n)
    /\ out = NoValue

NextAggregate == apply_aggregate_player_stats

SpecAggregate == InitAggregate /\ [][NextAggregate]_vars

\* ---- scraping: an event of three match pages scraped, rescored and
\* re-roled
Sites ==
    {<<Headed(Page("m1", <<RowA("p1"), RowB("p2")>>, {"p1", "p2"}), <<2, 1>>, 3, FALSE),
       Headed(Page("m2", <<RowC("p1"), RowA("p2")>>, {"p1", "p2"}), <<1, 3>>, 0, FALSE),
       Headed(Page("m3", <<>>, {"p1", "px"}), <<>>, 0, TRUE)>>,
     <<Headed(Page("m3", <<>>, {"p2", "px"}), <<0, 0>>, 0, FALSE),
       Headed(Page("m1", <<RowB("p1")>>, {"p1"}), <<2, 0>>, 2, FALSE),
       Headed(Page("m2", <<RowC("p1"), RowC("p2")>>, {"p1", "p2"}), <<3, 2>>, 5, FALSE)>>}

InitScrape ==
    /\ NoLeague
    /\ players = {}
    /\ last = Fresh
    /\ site \in Sites
    /\ fetched = {}
    /\ match_player_stats = {}
    /\ board = {}
    /\ followed_teams = [t \in TeamIds |-> ""]
    /\ match_results = <<>>
    /\ point_adjustments = <<>>
    /\ NoRest
    /\ arg = NoValue
    /\ out = NoValue

NextScrape ==
    \/ \E answers \in [DOMAIN site -> Responses] : scrape_single_source(answers)
    \/ recalculate_points
    \/ \E pid \in Known, role \in {"flex", "duelist"} : set_player_role(pid, role)
    \/ \E found \in {{"p1"}, {"p1", "px"}} : scrape_rosters(found)

SpecScrape == InitScrape /\ [][NextScrape]_vars

\* ---- re-scrapes of an event whose players carry admin-set roles and
\* manual points
InitRescrape ==
    /\ NoLeague
    /\ players = {}
    /\ last = Fresh
    /\ site \in {s \in Sites : s[1].rows # <<>>}
    /\ fetched = {}
    /\ match_player_stats = {}
    /\ board = {}
    /\ followed_teams = [t \in TeamIds |-> ""]
    /\ match_results = <<>>
    /\ point_adjustments = <<>>
    /\ NoRest
    /\ arg = NoValue
    /\ out = NoValue

NextRescrape ==
    \/ \E answers \in [DOMAIN site -> Responses] : scrape_single_source(answers)
    \/ set_player_role("p1", "duelist")
    \/ adjust_player("p1", -25000)

SpecRescrape == InitRescrape /\ [][NextRescrape]_vars

\* ---- stat patches: match rows scraped and patched by the admin
PatchForms ==
    {<<>>, [deaths |-> 0], [kast |-> 7000, adr |-> 10000]}

InitPatch ==
    /\ NoLeague
    /\ players = {}
    /\ last = Fresh
    /\ site \in {s \in Sites : s[1].rows # <<>>}
    /\ fetched = {}
    /\ match_player_stats = {}
    /\ board = {}
    /\ followed_teams = [t \in TeamIds |-> ""]
    /\ match_results = <<>>
    /\ point_adjustments = <<>>
    /\ NoRest
    /\ arg = NoValue
    /\ out = NoValue

NextPatch ==
    \/ \E answers \in [DOMAIN site -> Responses] : scrape_single_source(answers)
    \/ \E pid \in {"", "p2"}, fields \in PatchForms : patch_match_stats("m1", pid, fields)

SpecPatch == InitPatch /\ [][NextPatch]_vars

\* ---- standings: two teams, rosters of two scored players, one followed
\* team, results and adjustments
ScoredRow(pid, fantasy, manual) ==
    [make_player_stub(pid) EXCEPT !.matches_played = 1,
                                  !.fantasy_points = fantasy, !.manual_pts = manual]

Boards ==
    {{ScoredRow("p1", 1000000, 0), ScoredRow("p2", 500000, 0)},
     {ScoredRow("p1", 333300, 12346), ScoredRow("p2", 500100, -5000)}}

InitStandings ==
    /\ teams = {1, 2}
    /\ total_players = MaxCap
    /\ players = Known
    /\ roster = {}
    /\ trades = <<>>
    /\ drafts = <<>>
    /\ last = Fresh
    /\ site = <<>>
    /\ fetched = {}
    /\ match_player_stats = {}
    /\ board \in Boards
    /\ followed_teams = [t \in TeamIds |-> ""]
    /\ match_results = <<>>
    /\ point_adjustments = <<>>
    /\ NoRest
    /\ arg = NoValue
    /\ out = NoValue

NextStandings ==
    \/ \E p \in Known : add_player(1, p, "flex", "swiss")
    \/ add_player(1, "p1", "flex", "playoffs")
    \/ add_player(2, "p2", "flex", "swiss")
    \/ \E p \in Known, ph \in Phases : set_star(1, p, ph)
    \/ \E team_name \in {"", "FNC"} : set_followed_team(1, team_name)
    \/ \E team_name \in {"", "FNC"}, result \in {"win", "loss"}, fmt \in {"bo3", "bo5"} :
          add_match_result(team_name, result, fmt)
    \/ \E amount \in {-55000, 2500} : add_adjustment(1, amount)

SpecStandings == InitStandings /\ [][NextStandings]_vars

\* ================================================================ properties
Pending(id) == id \in DOMAIN trades /\ trades[id].status = "pending"
FromRows(id) == {r \in roster : r.team = trades[id].from_team
                             /\ r.player = trades[id].from_player}
ToRows(id)   == {r \in roster : r.team = trades[id].to_team
                             /\ r.player = trades[id].to_player}

\* C1: accepting a pending trade while the from-player's entry on the
\* from-team or the to-player's entry on the to-team is missing leaves the
\* roster table exactly as it was (no delete, no insert).
C1_MissingEntryNoRosterChange ==
    [][\A id \in 1..MaxTrades :
          (/\ last'.op = "accept_trade" /\ Pending(id)
           /\ (FromRows(id) = {} \/ ToRows(id) = {})
           /\ accept_trade(id))
              => roster' = roster]_vars

\* C1 witness: an acceptance ran on a trade one side of which was missing
\* while the other side held a roster entry.
C1_Witness ==
    /\ last.op = "accept_trade" /\ last.path = "missing"
    /\ \E id \in DOMAIN trades :
          /\ (FromRows(id) = {}) # (ToRows(id) = {})

\* C2: accepting a pending trade with a missing roster entry is reported as
\* failed: the call returns a failure result and the trade does not become
\* 'accepted'.
C2_MissingEntryReportedFailed ==
    [][\A id \in 1..MaxTrades :
          (/\ last'.op = "accept_trade" /\ Pending(id)
           /\ (FromRows(id) = {} \/ ToRows(id) = {})
           /\ accept_trade(id))
              => (last'.ret = "False" /\ trades'[id].status # "accepted")]_vars

\* C3: accepting a pending trade with both entries present puts the
\* to-player on the from-team in the from-player's (role_slot, phase) cell and
\* the from-player on the to-team in the to-player's cell, and changes no
\* other roster entry.
C3_SwapExchangesCells ==
    [][\A id \in 1..MaxTrades :
          (/\ last'.op = "accept_trade" /\ Pending(id)
           /\ FromRows(id) # {} /\ ToRows(id) # {}
           /\ accept_trade(id))
              => \E fs \in FromRows(id), ts \in ToRows(id), b1 \in BOOLEAN, b2 \in BOOLEAN :
                    roster' = (roster \ {fs, ts}) \cup
                        {RosterRow(trades[id].from_team, trades[id].to_player,
                                   fs.role_slot, fs.phase, b1),
                         RosterRow(trades[id].to_team, trades[id].from_player,
                                   ts.role_slot, ts.phase, b2)}]_vars

\* C4: an add_player request for a team whose roster at the target phase
\* already holds total_players entries is rejected and leaves the roster
\* unchanged.
C4_FullRosterRejectsAdd ==
    [][\A t \in TeamIds, p \in PlayerIds, slot \in RoleSlots, ph \in Phases :
          (/\ last'.op = "add_player"
           /\ Cardinality({r \in roster : r.team = t /\ r.phase = ph}) >= total_players
           /\ add_player(t, p, slot, ph))
              => (roster' = roster /\ last'.ret # "success")]_vars

\* C5: there is never more than one roster entry per (team, player, phase),
\* and adding a player already on the team's roster for that phase is
\* answered with a rejection, not an exception, and changes nothing.
C5_RosterKeyUnique ==
    /\ [](\A r1 \in roster, r2 \in roster :
            SameKey(r1, r2.team, r2.player, r2.phase) => r1 = r2)
    /\ [][\A t \in TeamIds, p \in PlayerIds, slot \in RoleSlots, ph \in Phases :
            (/\ last'.op = "add_player"
             /\ \E r \in roster : SameKey(r, t, p, ph)
             /\ add_player(t, p, slot, ph))
                => (roster' = roster /\ last'.ret \in {"warning", "error"})]_vars

\* C5 witness: an add of a player already on the roster was turned down.
C5_Witness ==
    /\ last.op = "add_player" /\ last.path = "dup"
    /\ roster # {}

Stars(t, ph) == {r \in roster : r.team = t /\ r.phase = ph /\ r.is_star}

\* C6: after any sequence of set_star, clear_star, roster add/remove, draft
\* pick and trade accept, each (team, phase) has at most one starred entry.
C6_AtMostOneStar ==
    \A t \in TeamIds, ph \in Phases : Cardinality(Stars(t, ph)) <= 1

\* C6 witness: a star was set in a team/phase that holds two entries.
C6_Witness ==
    /\ last.op = "set_star"
    /\ \E t \in TeamIds, ph \in Phases :
          /\ Cardinality({r \in roster : r.team = t /\ r.phase = ph}) >= 2
          /\ Cardinality(Stars(t, ph)) = 1

\* C7: after set_star_player(team, player, phase) exactly one entry of that
\* team and phase is starred, and it is the named player's.
C7_SetStarSetsNamedPlayer ==
    [][\A t \in TeamIds, p \in PlayerIds, ph \in Phases :
          (last'.op = "set_star" /\ set_star(t, p, ph))
              => \E r \in roster' :
                    /\ r.player = p
                    /\ {x \in roster' : x.team = t /\ x.phase = ph /\ x.is_star} = {r}]_vars

\* the team at 0-based position j of the league's teams in id order
TeamAt(j) == CHOOSE x \in teams : Cardinality({y \in teams : y < x}) = j

\* C8: a session created for n teams and total_players = k stores k*n picks,
\* pick i (0-based) going to team index i mod n in even rounds and
\* n-1-(i mod n) in odd rounds; three teams and k = 2 give T1,T2,T3,T3,T2,T1.
C8_SnakeOrder ==
    \A s \in DOMAIN drafts :
        LET n == Cardinality(teams)
            k == total_players
            order == drafts[s].snake_order
        IN  /\ Len(order) = k * n
            /\ drafts[s].total_picks = k * n
            /\ \A i \in 0..(k * n - 1) :
                  order[i + 1] = TeamAt(IF (i \div n) % 2 = 0 THEN i % n
                                                             ELSE n - 1 - (i % n))
            /\ (teams = {1, 2, 3} /\ k = 2) => order = <<1, 2, 3, 3, 2, 1>>

\* C8 witness: a session of three teams with two picks each.
C8_Witness ==
    /\ teams = {1, 2, 3} /\ total_players = 2
    /\ \E s \in DOMAIN drafts : Len(drafts[s].snake_order) = 6

\* C9: a successful draft pick gives the player to snake_order[current_pick-1]
\* (0-based), adds exactly 1 to current_pick and completes the session exactly
\* when the new current_pick exceeds total_picks; a rejected pick leaves
\* every session as it was.
C9_PickAdvancesByOne ==
    [][\A p \in PlayerIds \cup {""}, slot \in RoleSlots :
          (last'.op = "draft_pick" /\ draft_pick(p, slot)) =>
            IF roster' = roster
            THEN drafts' = drafts
            ELSE \E s \in DOMAIN drafts :
                   /\ drafts[s].status = "active"
                   /\ \E r \in roster' :
                         /\ roster' \ roster = {r}
                         /\ r.team = drafts[s].snake_order[drafts[s].current_pick]
                         /\ r.phase = drafts[s].phase
                   /\ drafts'[s].current_pick = drafts[s].current_pick + 1
                   /\ drafts'[s].status =
                         IF drafts'[s].current_pick > drafts[s].total_picks
                         THEN "complete" ELSE "active"
                   /\ \A o \in DOMAIN drafts : o # s => drafts'[o] = drafts[o]]_vars

\* C9 witness: a pick succeeded and completed a session.
C9_Witness ==
    /\ last.op = "draft_pick" /\ last.path = "picked"
    /\ \E s \in DOMAIN drafts : drafts[s].status = "complete"

\* C10: a league never has more than one draft session with status 'active'.
C10_OneActiveDraft ==
    Cardinality({s \in DOMAIN drafts : drafts[s].status = "active"}) <= 1

\* C18: calculate_player_points never raises a division error for a record
\* of non-negative stats under any role: deaths = 0 scores exactly as
\* deaths = 1 does, in the base term and in the (kills+assists)/deaths ratio,
\* and the initiator term divides by 0.001 for a zero ratio and by 0.01 for
\* a zero KAST.
C18_NoDivisionError ==
    out # NoValue =>
        LET p == out.arg.p
            r == IF out.arg.role = "" THEN p.role ELSE out.arg.role
        IN  /\ ~out.val.err
            /\ p.deaths = 0 =>
                  out.val = calculate_player_points([p EXCEPT !.deaths = 1],
                                                    out.arg.role)
            /\ r = "initiator" /\ p.kills + p.assists = 0 =>
                  out.val.role_bonus = 0                   \* 0 + (0 / 0.001) / kast
            /\ r = "initiator" /\ p.kast = 0 /\ p.kills + p.assists > 0 =>
                  out.val.role_bonus =
                      round(Frac(10000 * p.assists * (p.kills + p.assists)
                                   + 1000000 * p.assists
                                       * (IF p.deaths = 0 THEN 1 ELSE p.deaths),
                                 p.kills + p.assists), 1)

C18_Witness ==
    /\ out # NoValue
    /\ out.arg.p.deaths = 0
    /\ out.arg.p.kast = 0
    /\ out.arg.p.assists > 0
    /\ out.arg.role = "initiator"
    /\ ~out.val.err
    /\ out.val.role_bonus > 0

\* C20: the extractor stores a raw KAST v with 0 < v <= 1.5 as v * 100 and
\* any other value unchanged: 0.8 -> 80, 80 -> 80, 1.4 -> 140, 1.5 -> 150,
\* 1.51 -> 1.51.
C20_KastNormalised ==
    (out # NoValue /\ out.val # NoValue /\ out.arg.kast_text = "num") =>
        LET v == out.arg.kast_raw
            k == out.val.kast
        IN  /\ (0 < v /\ v <= 150) => k = v * 100
            /\ ~(0 < v /\ v <= 150) => k = v
            /\ v = 80 => k = 8000
            /\ v = 8000 => k = 8000
            /\ v = 140 => k = 14000
            /\ v = 150 => k = 15000
            /\ v = 151 => k = 151

C20_Witness ==
    /\ out # NoValue
    /\ out.val # NoValue
    /\ out.arg.kast_text = "num"
    /\ out.arg.kast_raw = 150
    /\ out.val.kast = 15000

\* the positions of one player's rows in a list of match rows
RowsOf(rows, pid) == {i \in DOMAIN rows : rows[i].player_id = pid}

\* the engine totals of the rows at the positions S, added up
RECURSIVE SumTotals(_, _, _)
SumTotals(rows, S, role) ==
    IF S = {} THEN 0
    ELSE LET i == CHOOSE j \in S : TRUE
         IN  calculate_player_points(pdata(rows[i], role), "").total
               + SumTotals(rows, S \ {i}, role)

\* C11: for every player of the list, aggregate_player_stats yields
\* fantasy_points equal to the sum of calculate_player_points totals over the
\* player's rows not flagged incomplete, and matches_played equal to the
\* number of all the player's rows.
C11_SumOverCompleteRows ==
    out # NoValue =>
        \A pid \in DOMAIN out.val :
            LET mine     == RowsOf(out.arg, pid)
                complete == {i \in mine : out.arg[i].stats_incomplete = 0}
            IN  /\ out.val[pid].fantasy_points =
                      SumTotals(out.arg, complete, out.val[pid].role)
                /\ out.val[pid].matches_played = Cardinality(mine)

C11_Witness ==
    /\ out # NoValue
    /\ "p1" \in DOMAIN out.val
    /\ Cardinality(RowsOf(out.arg, "p1")) = 2
    /\ \E i, j \in RowsOf(out.arg, "p1") :
          /\ out.arg[i].stats_incomplete = 1
          /\ out.arg[j].stats_incomplete = 0
          /\ out.val["p1"].fantasy_points =
                calculate_player_points(pdata(out.arg[j], "flex"), "").total
    /\ out.val["p1"].fantasy_points # 0
    /\ out.val["p1"].matches_played = 2

\* the pages of the site that answer within the attempts of _get
Fetchable(answers) == {i \in DOMAIN site : get(answers[i])}

\* the rows of a scrape's list that the points of player pid are summed over
Complete(rows, pid) == {i \in RowsOf(rows, pid) : rows[i].stats_incomplete = 0}

\* C12: when scrape_source aggregates and upserts a player who already has
\* a players row, the fantasy_points stored by the upsert equal the sum of
\* the engine totals of the player's non-incomplete rows scored under the
\* role stored in that row.
C12_ScoredWithStoredRole ==
    [][\A answers \in [DOMAIN site -> Responses] :
          (last'.op = "scrape_single_source" /\ fetched' = Fetchable(answers)) =>
             \A o \in {scrape_source(site, answers, match_player_stats, board)} :
                 \A r \in o.rows :
                    (/\ r.player_id \in players
                     /\ RowsOf(o.all_player_rows, r.player_id) # {})
                       => r.fantasy_points =
                            SumTotals(o.all_player_rows,
                                      Complete(o.all_player_rows, r.player_id),
                                      r.role)]_vars

\* C13: when match_player_stats holds rows, recalculate_tournament_points
\* stores for every player the base, role and fantasy points that the
\* aggregator computes from the player's stored rows under the player's
\* stored role, rows flagged incomplete left out of the sums.
C13_RecalcReplaysAggregator ==
    [][(/\ last'.op = "recalculate_points"
        /\ match_player_stats # {}
        /\ recalculate_points)
          => \A r \in board' :
                LET mine == bucket(fetchall(match_player_stats), r.player_id)
                    agg  == aggregate_bucket([i \in DOMAIN mine |->
                                                 [mine[i] EXCEPT !.role = r.role]])
                IN  mine # <<>> =>
                       /\ r.base_points = agg.base_points
                       /\ r.role_points = agg.role_points
                       /\ r.fantasy_points = agg.fantasy_points]_vars

\* C14: aggregating and upserting the same match rows a second time leaves
\* one players row per player_id, each with the values it had after the
\* first run; a scrape request repeated on the same pages leaves the players
\* and match_player_stats tables as they were.
C14_UpsertIdempotent ==
    /\ [](\A r1, r2 \in board : r1.player_id = r2.player_id => r1 = r2)
    /\ [][\A answers \in [DOMAIN site -> Responses] :
            (last'.op = "scrape_single_source" /\ fetched' = Fetchable(answers)) =>
               \A o1 \in {scrape_source(site, answers, match_player_stats, board)} :
               \A o2 \in {scrape_source(site, answers, o1.mps, o1.rows)} :
                   /\ o2.rows = o1.rows
                   /\ o2.mps = o1.mps
                   /\ \A r1, r2 \in o2.rows : r1.player_id = r2.player_id => r1 = r2
                   /\ out'.arg => (board' = board
                                    /\ match_player_stats' = match_player_stats)]_vars

C14_Witness ==
    /\ last.op = "scrape_single_source"
    /\ out.arg
    /\ out.val = 2
    /\ \E r \in board : r.matches_played = 2 /\ r.fantasy_points # 0

\* C17: registering stubs never changes a players row that exists: after
\* scrape_rosters every row is as it was and every new row is a zero-stat
\* stub of a player who had no row; scrape_source leaves the row of every
\* player it does not aggregate as it was, stats-free pages included.
C17_StubNeverOverwrites ==
    /\ [][last'.op = "scrape_rosters" =>
            /\ board \subseteq board'
            /\ \A r \in board' \ board :
                  r = make_player_stub(r.player_id) /\ r.player_id \notin players]_vars
    /\ [][\A answers \in [DOMAIN site -> Responses] :
            (last'.op = "scrape_single_source" /\ fetched' = Fetchable(answers)) =>
               \A o \in {scrape_source(site, answers, match_player_stats, board)} :
                   \A r \in board :
                      RowsOf(o.all_player_rows, r.player_id) = {} => r \in o.rows]_vars

C17_Witness ==
    /\ last.op = "scrape_rosters"
    /\ last.ret = "success"
    /\ \E r \in board : /\ r.player_id = "p1"
                         /\ r.matches_played > 0
                         /\ r.fantasy_points # 0
    /\ make_player_stub("px") \in board

\* the parsed rows of the i-th match page
PageRows(i) == scrape_match_page(site[i], <<200, 200, 200>>).players

\* C19: when a match page cannot be fetched within the attempts of _get,
\* scrape_source raises nothing, stores nothing for that page, and stores
\* the rows of every other page it can fetch, those after the failed page
\* included.
C19_UnfetchedPageSkipped ==
    [][\A answers \in [DOMAIN site -> Responses] :
          (last'.op = "scrape_single_source" /\ fetched' = Fetchable(answers)) =>
             LET bad == {i \in DOMAIN site : ~get(answers[i])}
             IN  /\ last'.path # "exception"
                 /\ \A i \in bad :
                       {m \in match_player_stats' : m.match_id = site[i].match_id}
                         = {m \in match_player_stats : m.match_id = site[i].match_id}
                 /\ \A i \in DOMAIN site \ bad :
                       /\ \A k \in DOMAIN PageRows(i) :
                             \E m \in match_player_stats' :
                                 m = [PageRows(i)[k] EXCEPT !.role = m.role]
                       /\ PageRows(i) = <<>> => site[i].links \subseteq players']_vars

C19_Witness ==
    /\ last.op = "scrape_single_source"
    /\ last.path = "scraped"
    /\ \E i, j \in DOMAIN site :
          /\ i < j
          /\ i \notin fetched
          /\ j \in fetched
          /\ PageRows(i) # <<>>
          /\ PageRows(j) # <<>>
          /\ ~\E m \in match_player_stats : m.match_id = site[i].match_id
          /\ \A k \in DOMAIN PageRows(j) : PageRows(j)[k] \in match_player_stats

\* the roster entries of team t in phase ph that join a players row
Entries(t, ph) == {e \in roster : e.team = t /\ e.phase = ph /\ e.player \in player_ids(board)}

\* fantasy_points + manual_pts of the players row of player pid
Worth(pid) ==
    LET p == CHOOSE r \in board : r.player_id = pid
    IN  p.fantasy_points + p.manual_pts

\* the followed-team points of team t: +100 / -75 per bo3 win / loss,
\* +75 / -50 per win / loss of another format
FollowPoints(t) ==
    LET mine == {i \in DOMAIN match_results :
                    followed_teams[t] # "" /\ match_results[i].team_name = followed_teams[t]}
        won(fmt) == Cardinality({i \in mine : match_results[i].result = "win"
                                               /\ match_results[i].format = fmt})
        lost(fmt) == Cardinality({i \in mine : match_results[i].result # "win"
                                                /\ match_results[i].format = fmt})
    IN  1000000 * won("bo3") - 750000 * lost("bo3")
          + 750000 * won("bo5") - 500000 * lost("bo5")

\* C15: every team's phase standings total is round(sum of fantasy_points +
\* manual_pts over the phase roster + half that worth for the star entry +
\* followed-team points + sum of the team's adjustments, 2); a roster of a
\* star worth 100 and a non-star worth 50, nothing else, totals 200.
C15_PhaseTotal ==
    \A t \in teams, ph \in Phases :
        LET row  == get_phase_standings(teams, roster, board, followed_teams,
                                        match_results, point_adjustments, ph)[t]
            pts  == total_of([e \in Entries(t, ph) |-> Worth(e.player)])
            star == total_of([e \in {x \in Entries(t, ph) : x.is_star} |->
                                Worth(e.player)])
            adj  == total_of([i \in {j \in DOMAIN point_adjustments :
                                        point_adjustments[j].team = t} |->
                                point_adjustments[i].amount])
        IN  /\ row.total_points =
                  round(Frac(2 * (pts + FollowPoints(t) + adj) + star, 2), 100)
            /\ (/\ \E a, b \in Entries(t, ph) :
                      /\ Entries(t, ph) = {a, b}
                      /\ a.is_star /\ Worth(a.player) = 1000000
                      /\ ~b.is_star /\ Worth(b.player) = 500000
                /\ FollowPoints(t) = 0
                /\ adj = 0) => row.total_points = 2000000

C15_Witness ==
    /\ \E a, b \in Entries(1, "swiss") :
          /\ Entries(1, "swiss") = {a, b}
          /\ a.is_star /\ Worth(a.player) = 1000000
          /\ ~b.is_star /\ Worth(b.player) = 500000
    /\ followed_teams[1] = "FNC"
    /\ \E i \in DOMAIN match_results :
          match_results[i] = [team_name |-> "FNC", result |-> "loss", format |-> "bo3"]
    /\ \E i \in DOMAIN point_adjustments : point_adjustments[i].team = 1
    /\ get_phase_standings(teams, roster, board, followed_teams, match_results,
                           point_adjustments, "swiss")[1].total_points
          = 2000000 - 750000 + point_adjustments[1].amount

\* C16: every team's overall standings total is its swiss phase total plus
\* its playoffs phase total, rounded to 2 decimals, both taken from
\* get_phase_standings.
C16_OverallIsSumOfPhases ==
    \A t \in teams :
        LET overall  == get_overall_standings(teams, roster, board, followed_teams,
                                              match_results, point_adjustments)[t]
            swiss    == get_phase_standings(teams, roster, board, followed_teams,
                                            match_results, point_adjustments, "swiss")[t]
            playoffs == get_phase_standings(teams, roster, board, followed_teams,
                                            match_results, point_adjustments, "playoffs")[t]
        IN  /\ overall.swiss_pts = swiss.total_points
            /\ overall.playoffs_pts = playoffs.total_points
            /\ overall.total_points = swiss.total_points + playoffs.total_points
            /\ overall.total_points % 100 = 0

C16_Witness ==
    LET overall == get_overall_standings(teams, roster, board, followed_teams,
                                         match_results, point_adjustments)[1]
    IN  /\ Entries(1, "swiss") # {}
        /\ Entries(1, "playoffs") # {}
        /\ overall.swiss_pts > 0
        /\ overall.playoffs_pts > 0
        /\ overall.swiss_pts # overall.playoffs_pts
        /\ overall.total_points = overall.swiss_pts + overall.playoffs_pts

\* the positions of the complete rows of player pid in the list under test
CompleteOf(pid) == {i \in RowsOf(out.arg, pid) : out.arg[i].stats_incomplete = 0}

\* the stats of two rows added up, counts and rates alike
SummedStats(r1, r2) ==
    [kills |-> r1.kills + r2.kills, deaths |-> r1.deaths + r2.deaths,
     assists |-> r1.assists + r2.assists,
     first_kills |-> r1.first_kills + r2.first_kills,
     first_deaths |-> r1.first_deaths + r2.first_deaths,
     rating |-> r1.rating + r2.rating, acs |-> r1.acs + r2.acs,
     kast |-> r1.kast + r2.kast, adr |-> r1.adr + r2.adr]

\* C21: for a player with two complete match rows, aggregate_player_stats
\* yields fantasy_points equal to the sum of the two per-row engine totals;
\* when the two rows differ in their (ACS, KAST) pair, that sum differs from
\* the engine total of the aggregated stats (counts summed, rates averaged)
\* scored once and from the engine total of the summed stats scored once.
C21_SumOfPerMatchScores ==
    out # NoValue =>
        \A pid \in DOMAIN out.val :
            \A i, j \in CompleteOf(pid) :
                (/\ i < j
                 /\ RowsOf(out.arg, pid) = {i, j})
                  => LET r1   == out.arg[i]
                         r2   == out.arg[j]
                         role == out.val[pid].role
                         s1   == calculate_player_points(pdata(r1, role), "").total
                         s2   == calculate_player_points(pdata(r2, role), "").total
                     IN  /\ out.val[pid].fantasy_points = s1 + s2
                         /\ <<r1.acs, r1.kast>> # <<r2.acs, r2.kast>> =>
                               /\ s1 + s2 # calculate_player_points(out.val[pid], "").total
                               /\ s1 + s2 # calculate_player_points(
                                                SummedStats(r1, r2), role).total

C21_Witness ==
    /\ out # NoValue
    /\ "p1" \in DOMAIN out.val
    /\ \E i, j \in CompleteOf("p1") :
          /\ i < j
          /\ RowsOf(out.arg, "p1") = {i, j}
          /\ out.arg[i].acs # out.arg[j].acs
          /\ out.arg[i].kast # out.arg[j].kast
          /\ out.arg[i].kills = out.arg[j].kills
          /\ out.val["p1"].fantasy_points
               # calculate_player_points(out.val["p1"], "").total
          /\ out.val["p1"].fantasy_points # 0

\* C22: after any sequence of roster adds, draft picks (of a second session
\* or on a team that already has entries included) and trade accepts, no
\* team holds more than total_players roster entries in one phase.
C22_RosterWithinCap ==
    \A t \in teams, ph \in Phases :
        Cardinality({r \in roster : r.team = t /\ r.phase = ph}) <= total_players

\* C23: a trade's status only moves from 'pending' to accepted, rejected or
\* cancelled: once a trade is not pending, no later resolve_trade or
\* cancel_trade call changes its status.
C23_ResolvedTradeIsFinal ==
    [][\A id \in DOMAIN trades :
          trades[id].status # "pending" =>
             /\ id \in DOMAIN trades'
             /\ trades'[id].status = trades[id].status]_vars

\* the slots of the session consumed so far that belong to team t
SlotsConsumed(d, t) ==
    {i \in 1..(d.current_pick - 1) : i \in DOMAIN d.snake_order /\ d.snake_order[i] = t}

\* C24: under two concurrent draft_pick requests on one active session,
\* whenever no request is in flight current_pick has advanced by exactly the
\* number of successful inserts and every team holds exactly one pick per
\* consumed slot of its own.
C24_OneInsertPerSlot ==
    (\A r \in Requests : requests[r].pc = "idle") =>
        /\ drafts[1].current_pick - 1 = Cardinality(roster)
        /\ \A t \in teams :
              Cardinality({e \in roster : e.team = t})
                = Cardinality(SlotsConsumed(drafts[1], t))

\* the deltas of the remaining ledger entries of player pid, added up
LedgerSum(pid) ==
    total_of([i \in {j \in DOMAIN player_adjustments :
                        /\ player_adjustments[j].live
                        /\ player_adjustments[j].player_id = pid} |->
                 player_adjustments[i].delta])

\* C25: after any sequence of adjust_player_points and
\* delete_player_adjustment operations, every player's manual_pts equals the
\* sum of the deltas of the player's remaining player_adjustments entries.
C25_ManualPtsIsLedgerSum ==
    \A r \in board : r.manual_pts = LedgerSum(r.player_id)

\* C26: when a scrape upserts an aggregated row for a player who already
\* has a players row, the row keeps its role and its manual_pts, in the
\* table scrape_source leaves and in the table the request leaves.
C26_UpsertKeepsRoleAndManual ==
    [][\A answers \in [DOMAIN site -> Responses] :
          (last'.op = "scrape_single_source" /\ fetched' = Fetchable(answers)) =>
             \A o \in {scrape_source(site, answers, match_player_stats, board)} :
                 \A r \in board :
                    (o.path = "scraped" /\ RowsOf(o.all_player_rows, r.player_id) # {})
                      => \A T \in {o.rows, board'} :
                            \E r2 \in T :
                               /\ r2.player_id = r.player_id
                               /\ r2.role = r.role
                               /\ r2.manual_pts = r.manual_pts
                               /\ r2.matches_played =
                                     Cardinality(RowsOf(o.all_player_rows, r.player_id))
                               /\ \A r3 \in T : r3.player_id = r.player_id => r3 = r2]_vars

C26_Witness ==
    /\ last.op = "scrape_single_source"
    /\ last.path = "scraped"
    /\ \E i \in fetched : \E k \in DOMAIN PageRows(i) : PageRows(i)[k].player_id = "p1"
    /\ \E r \in board :
          /\ r.player_id = "p1"
          /\ r.role = "duelist"
          /\ r.manual_pts = -25000
          /\ r.matches_played = 2
          /\ r.fantasy_points # 0

\* C27: in the overall standings every followed-team match result and every
\* team-level adjustment counts once: a team's overall total is the sum of
\* its two phase totals less one of the two copies of its followed-team
\* points and adjustments that the phase totals carry.
C27_FollowAndAdjustmentsOnce ==
    \A t \in teams :
        LET overall == get_overall_standings(teams, roster, board, followed_teams,
                                             match_results, point_adjustments)[t]
            adj     == get_total_adjustments(point_adjustments, t)
        IN  overall.total_points =
               overall.swiss_pts + overall.playoffs_pts - (FollowPoints(t) + adj)

\* C28: after a scrape, the matches row of every page the scrape fetched
\* carries the score pair, map count, format and status that
\* _extract_match_score returned for the page; a page extracted as
\* 'upcoming' is stored with status 'upcoming'.
C28_MatchRecordAsExtracted ==
    last.op = "scrape_single_source" =>
        \A i \in fetched :
            \E m \in matches :
                /\ m.match_id = site[i].match_id
                /\ m.score_a = extract_match_score(site[i]).score_a
                /\ m.score_b = extract_match_score(site[i]).score_b
                /\ m.map_count = extract_match_score(site[i]).map_count
                /\ m.match_format = extract_match_score(site[i]).match_format
                /\ m.status = extract_match_score(site[i]).status

\* the slots of a session's snake order that belong to team t
SlotsOf(d, t) == {i \in DOMAIN d.snake_order : d.snake_order[i] = t}

C30_StoredDeathsAtLeastOne ==
    \A m \in match_player_stats : m.deaths >= 1

====
